---- MODULE Spec2Model ----
(***************************************************************************)
(* Order-management engine of stocklook's GDAX market maker                *)
(* (stocklook/crypto/gdax/feeds/market_maker.py).                          *)
(*                                                                         *)
(* Prices are integers in cents, sizes integers in units of 0.01 coin.     *)
(* An order object is a record [side, price, size, op]; op is the id of    *)
(* the object held in _op_order, or None.  The engine state is threaded    *)
(* through the operations as a record m, so that an action is the whole    *)
(* handler with every call it makes.                                       *)
(***************************************************************************)
EXTENDS Integers, Sequences, FiniteSets, TLC

\* ------------------------------------------------------------------ bounds
MaxOrders == 3          \* order ids the exchange hands out in one run
max_open_buys == 1      \* configuration value of the checked instance
max_open_sells == 2     \* configuration value of the checked instance

\* --------------------------------------------------------------- constants
min_spread == 5         \* 0.05
max_spread == 10        \* 0.10
stop_pct == 5           \* 0.05, in percent
MinSize == 1            \* the literal 0.01 the sizes are compared with

None == 0

\* Markets the book feed can publish: ticker (0: no ticker yet), lowest
\* ask, and the bids highest first as <<price, size>>.
Markets ==
  { [ticker |-> 0,   ask |-> 120, bids |-> <<<<115, 1>>, <<110, 2>>, <<100, 5>>, <<98, 60>>>>],
    [ticker |-> 118, ask |-> 120, bids |-> <<<<115, 1>>, <<110, 2>>, <<100, 5>>, <<98, 60>>>>],
    [ticker |-> 90,  ask |-> 92,  bids |-> <<<<88, 1>>, <<86, 2>>, <<80, 5>>, <<78, 60>>>>] }

\* Values of balance * spend_pct / lowest_ask the account can yield.
AvailSizes == {0, 4}
\* Values calculate_wall_size() can yield.
WallSizes == {50, 100}

VARIABLES
  orders,        \* _orders: ids in insertion order; the object is ord[id]
  fills,         \* _fills: per key, the number of writes _fills[id] = order
  ord,           \* the order objects, by id (ids are 1, 2, ... as posted)
  exch,          \* the exchange's status of each posted order
  last_ticker,   \* _last_ticker (0: the empty dict)
  market,        \* what the book feed currently publishes
  manage_existing_orders,
  aggressive,
  last           \* what the engine operation that led to this state did

vars == <<orders, fills, ord, exch, last_ticker, market,
          manage_existing_orders, aggressive, last>>

\* ----------------------------------------------------------------- helpers
Range(s) == {s[i] : i \in DOMAIN s}
\* (variant: the id is left in the registry)
Pop_kept(s, x) == s

Pop(s, x) == SelectSeq(s, LAMBDA y : y # x)
Put(s, x) == IF x \in Range(s) THEN s ELSE Append(s, x)
\* (variant: the write is forgotten)
Write_forgotten(d, k) == d

\* d[k] = v on a dict kept as the number of writes per key
Write(d, k) == IF k \in DOMAIN d THEN [d EXCEPT ![k] = @ + 1] ELSE d @@ (k :> 1)

highest_bid == market.bids[1][1]
lowest_ask == market.ask

\* round(x, 2) of n/d cents, d > 0 (no ties arise for the factor 0.8)
RoundDiv(n, d) == (2 * n + d) \div (2 * d)
\* round(spread / 2, 2): 0.05 -> 0.03, 0.10 -> 0.05
HalfSpread(s) == (s + 1) \div 2

buy_orders(m) == SelectSeq(m.orders, LAMBDA i : m.ord[i].side = "buy")
sell_orders(m) == SelectSeq(m.orders, LAMBDA i : m.ord[i].side = "sell")

\* 100 * stop_amount, or None
stop_amount(m, o) ==
  IF stop_pct = 0 THEN None
  ELSE IF o.op = None THEN None
  ELSE IF o.side = "buy" THEN None
  ELSE m.ord[o.op].price * 100 - m.ord[o.op].price * stop_pct

\* --------------------------------------------------- price adjustments
get_amount_above_spread(o, spread) ==
  IF o.side = "sell"
  THEN o.price - (highest_bid + spread)
  ELSE o.price - (lowest_ask - spread)

\* price -= amount_above * 0.8, rounded
less_amount_above(price, amount_above) ==
  IF amount_above # 0
  THEN RoundDiv(5 * price - 4 * amount_above, 5)
  ELSE price

\* if self.op_order is not None: the clamp on the opposite's price
clamp_to_op(m, o, price, min_profit) ==
  IF o.op # None /\ price < m.ord[o.op].price + min_profit
  THEN m.ord[o.op].price + min_profit
  ELSE price

\* (variant: no clamp against the opposite's price)
get_price_adjusted_to_spread_unclamped(m, o, aggr, min_profit) ==
  less_amount_above(o.price, get_amount_above_spread(o, IF aggr THEN min_spread ELSE max_spread))

get_price_adjusted_to_spread(m, o, aggr, min_profit) ==
  clamp_to_op(m, o, less_amount_above(o.price, get_amount_above_spread(o, IF aggr THEN min_spread ELSE max_spread)), min_profit)

RECURSIVE adj_loop(_, _, _, _)
adj_loop(p, other_prices, step, increment) ==
  IF \E x \in other_prices : x >= p - 2 * step /\ x <= p + 2 * step
  THEN adj_loop(IF increment THEN p + step ELSE p + step,
                other_prices, step, increment)
  ELSE p

adj_price(p, other_prices, step, increment) ==
  IF \E x \in other_prices : x > p - 2 * step /\ x < p + 2 * step
  THEN adj_loop(IF increment THEN p + step ELSE p + step,
                other_prices, step, increment)
  ELSE p

Max(S) == CHOOSE x \in S : \A y \in S : y <= x
Min(S) == CHOOSE x \in S : \A y \in S : x <= y

\* the branches of get_price_adjusted_to_other_prices once other_prices
\* and my_min are known
adjusted_to(other_prices, my_min, side, aggr, step) ==
  IF other_prices = {} THEN my_min
  ELSE IF side = "buy"
       THEN IF aggr
            THEN IF my_min >= Max(other_prices) + step
                 THEN adj_price(my_min, other_prices, step, TRUE)
                 ELSE adj_price(my_min, other_prices, step, TRUE)
            ELSE adj_price(my_min, other_prices, step, FALSE)
       ELSE IF aggr
            THEN IF my_min >= Min(other_prices) - step
                 THEN adj_price(my_min, other_prices, step, FALSE)
                 ELSE adj_price(my_min, other_prices, step, TRUE)
            ELSE adj_price(my_min, other_prices, step, TRUE)

\* both sides read buy_orders
other_prices_of(m, o) ==
  (IF o.side = "buy"
   THEN {m.ord[i].price : i \in Range(buy_orders(m))}
   ELSE {m.ord[i].price : i \in Range(buy_orders(m))}) \ {o.price}

get_price_adjusted_to_other_prices(m, o, aggr, step, min_profit) ==
  adjusted_to(other_prices_of(m, o), get_price_adjusted_to_spread(m, o, aggr, min_profit), o.side, aggr, step)

get_other_order_prices(m, side) ==
  {m.ord[i].price : i \in {j \in Range(m.orders) : m.ord[j].side = side}}

RECURSIVE ticker_loop(_, _, _, _)
ticker_loop(price, o_prices, side, spread_add) ==
  IF price \in o_prices
  THEN ticker_loop(IF side = "buy" THEN price - spread_add
                   ELSE price + spread_add,
                   o_prices, side, spread_add)
  ELSE price

\* (variant: only sells are moved away from the ticker)
away_from_ticker_sells(o, t, spread) ==
  IF t # 0 /\ o.side # "buy" /\ o.price <= t + spread THEN t + spread
  ELSE o.price

\* the price kept the spread away from the ticker t (0: no ticker)
away_from_ticker(o, t, spread) ==
  IF t # 0
  THEN IF o.side = "buy"
       THEN IF o.price >= t - spread THEN t - spread ELSE o.price
       ELSE IF o.price <= t + spread THEN t + spread ELSE o.price
  ELSE o.price

ticker_adjusted(m, o, spread) ==
  ticker_loop(away_from_ticker(o, market.ticker, spread), get_other_order_prices(m, o.side), o.side, HalfSpread(spread))

get_price_adjusted_to_ticker(m, o, aggr) ==
  ticker_adjusted(m, o, IF aggr THEN min_spread ELSE max_spread)

\* ------------------------------------------------------ engine operations
\* The engine state handed through a handler: the four maps, the pending
\* exception, the value returned, and what the handler did so far.
St == [orders |-> orders, fills |-> fills, ord |-> ord, exch |-> exch,
       exc |-> "none", ret |-> None, placed |-> <<>>, handled |-> <<>>,
       evs |-> <<>>]

Raise(m, e) == [m EXCEPT !.exc = e, !.ret = None]

\* (variant: <= instead of < on the number of open buys)
position_size_le(m, size_avail) ==
  IF size_avail > MinSize
     /\ Len(buy_orders(m)) <= max_open_buys
     /\ Len(sell_orders(m)) < max_open_sells
  THEN size_avail
  ELSE 0

position_size(m, size_avail) ==
  IF size_avail > MinSize
     /\ Len(buy_orders(m)) < max_open_buys
     /\ Len(sell_orders(m)) < max_open_sells
  THEN size_avail
  ELSE 0

\* GdaxOrder.post(): the exchange assigns the id and opens the order, or
\* rejects the post.
post(m, o, ok) ==
  IF ok /\ Len(m.ord) < MaxOrders
  THEN [m EXCEPT !.ord = Append(@, o), !.exch = Append(@, "open"),
                 !.ret = Len(m.ord) + 1]
  ELSE Raise(m, "GdaxAPIError")

\* GdaxOrder.is_filled()
is_filled(m, order_id) == m.exch[order_id] = "filled"

\* Answers GdaxOrder.cancel() can give for an order in a given state.
\* An open order can fill while the cancel is on its way ("done").
CancelAnswers(status) ==
  IF status = "open" THEN {"ok", "done", "cancel_error", "error"}
  ELSE IF status = "filled" THEN {"done", "error"}
  ELSE {"notfound", "done", "error"}

\* GdaxOrder.cancel(): a successful cancel takes the order off the book;
\* "done" for an order that was open means it has just filled.
cancel(m, order_id, ans) ==
  IF ans = "ok" THEN [m EXCEPT !.exch[order_id] = "gone"]
  ELSE IF ans = "done" /\ m.exch[order_id] = "open"
  THEN [m EXCEPT !.exch[order_id] = "filled"]
  ELSE m

\* (variant: the posted order is not stored)
register_skipped(m, order_id) == m

\* self._orders[order.id] = order
register(m, order_id) ==
  [m EXCEPT !.orders = Put(@, order_id), !.placed = Append(@, order_id)]

\* if p: order.price = p
set_price(o, p) == IF p # 0 THEN [o EXCEPT !.price = p] ELSE o

\* if adjust_vs_open: ...
adjust_vs_open_orders(m, o, adjust_vs_open, aggr) ==
  IF adjust_vs_open
  THEN set_price(o, get_price_adjusted_to_other_prices(m, o, aggr, HalfSpread(max_spread), min_spread))
  ELSE o

\* if check_ticker: ...
adjust_vs_ticker(m, o, check_ticker, aggr) ==
  IF check_ticker
  THEN set_price(o, get_price_adjusted_to_ticker(m, o, aggr))
  ELSE o

\* order.post(); assert order.id is not None; store
post_and_register(posted) ==
  IF posted.exc # "none" THEN posted ELSE register(posted, posted.ret)

\* the order object place_order builds, its size cut to pos_size
new_order(side, price, size, op_order, check_size, pos_size) ==
  [side |-> side, price |-> price,
   size |-> IF check_size /\ side = "buy" /\ size > pos_size
            THEN pos_size ELSE size,
   op |-> op_order]

place_order(m, price, size, side, op_order, adjust_vs_open, check_size, check_ticker, aggr, size_avail, ok) ==
  IF check_size /\ side = "buy" /\ position_size(m, size_avail) < MinSize
  THEN [m EXCEPT !.ret = None]
  ELSE post_and_register(
         post(m,
              adjust_vs_ticker(
                m,
                adjust_vs_open_orders(
                  m,
                  new_order(side, price, size, op_order, check_size,
                            position_size(m, size_avail)),
                  adjust_vs_open, aggr),
                check_ticker, aggr),
              ok))

\* the record of one handle_fill: the id handled, what it returned or
\* raised, and the number of tracked buys it counted
handled_as(m, order_id, n_buys) ==
  [m EXCEPT !.handled = Append(@, [id |-> order_id, new |-> m.ret, exc |-> m.exc, n_buys |-> n_buys])]

\* handle_fill from self._fills[order.id] = order on; m is the state
\* after the pop
fill_and_replace(m, order_id, order, replace, spread, size_avail, ok) ==
  IF replace /\ ~(IF order.side = "buy" THEN FALSE
                  ELSE Len(buy_orders(m)) > max_open_buys
                       \/ Len(sell_orders(m)) > max_open_sells)
  THEN place_order([m EXCEPT !.fills = Write(@, order_id)],
                   IF order.side = "buy" THEN order.price + spread
                   ELSE order.price - spread,
                   order.size,
                   IF order.side = "buy" THEN "sell" ELSE "buy",
                   order_id, TRUE, TRUE, TRUE, aggressive, size_avail, ok)
  ELSE [m EXCEPT !.fills = Write(@, order_id), !.ret = None]

handle_fill(m, order_id, replace, size_avail, ok) ==
  IF order_id \notin Range(m.orders) THEN Raise(m, "KeyError")
  ELSE IF ~is_filled(m, order_id)
  THEN Raise([m EXCEPT !.orders = Pop(@, order_id)], "Exception")
  ELSE handled_as(
         fill_and_replace([m EXCEPT !.orders = Pop(@, order_id)], order_id,
                          m.ord[order_id], replace,
                          IF aggressive THEN min_spread ELSE max_spread,
                          size_avail, ok),
         order_id,
         Len(SelectSeq(buy_orders(m), LAMBDA i : i # order_id)))

\* (variant: .get instead of .pop)
cancel_pop_kept(m, order_id) == m

\* order = self._orders.pop(order_id, None)
cancel_pop(m, order_id) == [m EXCEPT !.orders = Pop(@, order_id)]

\* return order (unless something raised on the way)
returning(m, order_id) ==
  IF m.exc # "none" THEN m ELSE [m EXCEPT !.ret = order_id]

\* cancel_order from order.cancel() on; m is the state after the pop
cancel_answered(m, order_id, ans, size_avail, ok) ==
  IF ans = "ok" THEN [m EXCEPT !.ret = order_id]
  ELSE IF ans = "cancel_error"
  THEN Raise(m, "GdaxOrderCancellationError")
  ELSE IF ans = "done"
  THEN returning(handle_fill([m EXCEPT !.orders = Put(@, order_id)],
                             order_id, TRUE, size_avail, ok),
                 order_id)
  ELSE IF ans = "notfound" THEN [m EXCEPT !.ret = order_id]
  ELSE Raise(m, "GdaxAPIError")

cancel_order(m, order_id, ans, size_avail, ok) ==
  IF order_id \notin Range(m.orders) THEN Raise(m, "AttributeError")
  ELSE cancel_answered(cancel(cancel_pop(m, order_id), order_id, ans),
                       order_id, ans, size_avail, ok)

\* [self.handle_fill(o) for o in filled]: the set of outcomes, over what
\* the account and the exchange answer to each follow-up.
RECURSIVE handle_all(_, _)
handle_all(m, filled) ==
  IF filled = <<>> \/ m.exc # "none" THEN {m}
  ELSE UNION { handle_all(handle_fill(m, Head(filled), TRUE, a, ok),
                          Tail(filled))
               : a \in AvailSizes, ok \in BOOLEAN }

RECURSIVE adopt_all(_, _, _)
adopt_all(m, open_ids, i) ==
  IF i > Len(m.ord) THEN m
  ELSE IF i \in open_ids /\ i \notin Range(m.orders)
  THEN adopt_all([m EXCEPT !.ord[i].op = None, !.orders = Append(@, i)],
                 open_ids, i + 1)
  ELSE adopt_all(m, open_ids, i + 1)

\* (variant: the orders of the listing are never taken into the registry)
refresh_unadopted(m) ==
  handle_all(m, SelectSeq(m.orders, LAMBDA i : m.exch[i] # "open"))

\* the orders property: the set of outcomes
refresh(m) ==
  LET open_ids == {i \in DOMAIN m.exch : m.exch[i] = "open"}
      filled == SelectSeq(m.orders, LAMBDA i : i \notin open_ids)
  IN  { IF m1.exc # "none" THEN m1
        ELSE IF manage_existing_orders THEN adopt_all(m1, open_ids, 1)
        ELSE m1
        : m1 \in handle_all(m, filled) }

\* What one iteration of the loop of shift_orders decides for an order:
\* "excluded", "stopped" (the continue after cancels.append), "keep",
\* or a cancel/replace: "shift_buy", "stop_sell", "shift_sell".
\* the branches of the loop body once the prices are computed
shift_branch(order_id, order, p, excl, spread, stop, min_price, max_price, check_price) ==
  IF order_id \in excl THEN [act |-> "excluded", price |-> 0]
  ELSE IF order.side = "sell" /\ stop # None /\ stop >= 100 * p
  THEN [act |-> "stopped", price |-> 0]
  ELSE IF order.side = "buy"
  THEN IF max_price - order.price > spread /\ check_price > order.price
       THEN [act |-> "shift_buy", price |-> check_price]
       ELSE [act |-> "keep", price |-> 0]
  ELSE IF stop # None /\ stop >= 100 * p
          /\ order.price > p + HalfSpread(spread)
       THEN [act |-> "stop_sell", price |-> p + HalfSpread(spread)]
       ELSE IF order.price > min_price /\ order.price > check_price
            THEN [act |-> "shift_sell", price |-> check_price]
            ELSE [act |-> "keep", price |-> 0]

shift_prices(m, order_id, order, p, excl, spread) ==
  shift_branch(order_id, order, p, excl, spread,
               stop_amount(m, order),
               get_price_adjusted_to_spread(m, order, TRUE, spread),
               get_price_adjusted_to_spread(m, order, FALSE, spread),
               get_price_adjusted_to_other_prices(m, order, aggressive, HalfSpread(spread), 1))

shift_decision(m, order_id, p, excl) ==
  shift_prices(m, order_id, m.ord[order_id], p, excl, IF aggressive THEN min_spread ELSE max_spread)

Ev(m, order_id, act, ans) ==
  [m EXCEPT !.evs = Append(@, [id |-> order_id, act |-> act, ans |-> ans,
                               new |-> m.ret])]

\* one iteration of the loop of shift_orders: the set of outcomes
\* self.place_order(...) after self.cancel_order(order_id): c is the state
\* cancel_order left
shift_replace(c, order_id, order, d, ans) ==
  IF c.exc # "none" THEN {Ev(c, order_id, d.act, ans)}
  ELSE { Ev(place_order(c, d.price, order.size, order.side, order_id, FALSE, d.act # "stop_sell", TRUE, TRUE, a2, ok2),
            order_id, d.act, ans)
         : a2 \in AvailSizes, ok2 \in BOOLEAN }

shift_act(m, order_id, d) ==
  IF d.act \in {"excluded", "stopped", "keep"}
  THEN {Ev([m EXCEPT !.ret = None], order_id, d.act, "none")}
  ELSE UNION { shift_replace(cancel_order(m, order_id, ans, a, ok), order_id, m.ord[order_id], d, ans)
               : ans \in CancelAnswers(m.exch[order_id]),
                 a \in AvailSizes, ok \in BOOLEAN }

\* (variant: the exclude list is ignored)
shift_one_all(m, order_id, p, excl) ==
  shift_act(m, order_id, shift_decision(m, order_id, p, {}))

shift_one(m, order_id, p, excl) ==
  shift_act(m, order_id, shift_decision(m, order_id, p, excl))

\* for order_id, order in self._orders.copy().items()
RECURSIVE shift_loop(_, _, _, _)
shift_loop(m, copy, p, excl) ==
  IF copy = <<>> \/ m.exc # "none" THEN {m}
  ELSE UNION { shift_loop(m1, Tail(copy), p, excl)
               : m1 \in shift_one(m, Head(copy), p, excl) }

\* (variant: the pass also runs when the ticker has not changed)
shift_orders_unchanged(m, excl) ==
  UNION {
    IF m1.exc # "none" \/ m1.orders = <<>>
    THEN {[m |-> m1, last_ticker |-> last_ticker]}
    ELSE IF last_ticker = 0 /\ market.ticker > 0
    THEN {[m |-> m1, last_ticker |-> market.ticker]}
    ELSE IF market.ticker > 0
    THEN {[m |-> m2, last_ticker |-> market.ticker]
          : m2 \in shift_loop(m1, m1.orders, market.ticker, excl)}
    ELSE {[m |-> m1, last_ticker |-> last_ticker]}
    : m1 \in refresh(m) }

\* shift_orders: the outcomes, each with the new _last_ticker
shift_orders(m, excl) ==
  UNION {
    LET p == market.ticker
    IN  IF m1.exc # "none" \/ m1.orders = <<>>
        THEN {[m |-> m1, last_ticker |-> last_ticker]}
        ELSE IF last_ticker = 0 /\ p > 0
        THEN {[m |-> m1, last_ticker |-> p]}
        ELSE IF last_ticker # p /\ p > 0
        THEN {[m |-> m2, last_ticker |-> p]
              : m2 \in shift_loop(m1, m1.orders, p, excl)}
        ELSE {[m |-> m1, last_ticker |-> last_ticker]}
    : m1 \in refresh(m) }

\* run(): the walk over the bids to the level before the first wall
wall_index(bids, wall_size) ==
  LET hits == {i \in DOMAIN bids : bids[i][2] >= wall_size /\ i - 1 >= 3}
  IN  IF hits = {} THEN None ELSE Min(hits) - 1

\* run(): lines 821-868 of one iteration, the seed buy.  seed is the id
\* appended to new_orders, None when no buy was placed.
\* new_orders.append(o.id): o is what place_order left
append_id(o) ==
  IF o.exc = "none" /\ o.ret = None THEN Raise(o, "AttributeError") ELSE o

seed_at(m, tick_price, size_avail, bid_idx) ==
  IF tick_price = 0 THEN {Raise(m, "TypeError")}
  ELSE IF size_avail > MinSize /\ market.bids # <<>> /\ bid_idx # None
  THEN { append_id(place_order(m, market.bids[bid_idx][1], size_avail, "buy", None, TRUE, TRUE, TRUE, FALSE, a2, ok))
         : a2 \in AvailSizes, ok \in BOOLEAN }
  ELSE {[m EXCEPT !.ret = None]}

seed_buy(m) ==
  UNION { seed_at(m, market.ticker,
                  (position_size(m, a1) * market.ticker) \div lowest_ask,
                  wall_index(market.bids, wall_size))
          : a1 \in AvailSizes, wall_size \in WallSizes }

\* one iteration of the loop of run()
run_iteration(m) ==
  UNION {
    IF s.exc # "none"
    THEN {[m |-> s, last_ticker |-> last_ticker, seed |-> None]}
    ELSE {[r EXCEPT !.seed = s.ret] :
          r \in {[m |-> x.m, last_ticker |-> x.last_ticker, seed |-> None]
                 : x \in shift_orders(s, IF s.ret = None THEN {} ELSE {s.ret})}}
    : s \in seed_buy(m) }

\* ------------------------------------------------------------- the machine
NoOp == [op |-> "none", id |-> None, ans |-> "none", seed |-> None,
         ret |-> None, exc |-> "none", placed |-> <<>>, handled |-> <<>>,
         evs |-> <<>>]

Done(op, order_id, ans, seed, m) ==
  [op |-> op, id |-> order_id, ans |-> ans, seed |-> seed, ret |-> m.ret,
   exc |-> m.exc, placed |-> m.placed, handled |-> m.handled,
   evs |-> m.evs]

Commit(m) ==
  /\ orders' = m.orders
  /\ fills' = m.fills
  /\ ord' = m.ord
  /\ exch' = m.exch

Init ==
  /\ orders = <<>>
  /\ fills = <<>>
  /\ ord = <<>>
  /\ exch = <<>>
  /\ last_ticker = 0
  /\ market \in {k \in Markets : k.ticker = 0}
  /\ manage_existing_orders = FALSE
  /\ aggressive \in BOOLEAN
  /\ last = NoOp

\* --- the exchange and the book feed
MarketMove ==
  /\ \E k \in Markets : k # market /\ k.ticker # 0 /\ market' = k
  /\ last' = NoOp
  /\ UNCHANGED <<orders, fills, ord, exch, last_ticker,
                 manage_existing_orders, aggressive>>

ExchFill ==
  /\ \E i \in DOMAIN exch :
       /\ exch[i] = "open"
       /\ i \in Range(orders)
       /\ exch' = [exch EXCEPT ![i] = "filled"]
  /\ last' = NoOp
  /\ UNCHANGED <<orders, fills, ord, last_ticker, market,
                 manage_existing_orders, aggressive>>

ExchCancel ==
  /\ \E i \in DOMAIN exch :
       /\ exch[i] = "open"
       /\ i \in Range(orders)
       /\ exch' = [exch EXCEPT ![i] = "gone"]
  /\ last' = NoOp
  /\ UNCHANGED <<orders, fills, ord, last_ticker, market,
                 manage_existing_orders, aggressive>>

\* --- the engine
RunIteration ==
  /\ \E r \in run_iteration(St) :
       /\ Commit(r.m)
       /\ last_ticker' = r.last_ticker
       /\ last' = Done("run", None, "none", r.seed, r.m)
  /\ UNCHANGED <<market, manage_existing_orders, aggressive>>

\* cancel_order is called for a tracked id, or once more for the id of the
\* call before.
CallCancel ==
  /\ \E order_id \in Range(orders) \cup
                     (IF last.op = "cancel_order" THEN {last.id} ELSE {}) :
       \E r \in { [ans |-> IF order_id \in Range(orders) THEN ans
                           ELSE "no_order",
                   m |-> cancel_order(St, order_id, ans, a, ok)]
                  : ans \in CancelAnswers(exch[order_id]),
                    a \in AvailSizes, ok \in BOOLEAN } :
         /\ Commit(r.m)
         /\ last' = Done("cancel_order", order_id, r.ans, None, r.m)
  /\ UNCHANGED <<last_ticker, market, manage_existing_orders, aggressive>>

CallOrders ==
  /\ \E m \in refresh(St) :
       /\ Commit(m)
       /\ last' = Done("orders", None, "none", None, m)
  /\ UNCHANGED <<last_ticker, market, manage_existing_orders, aggressive>>

Next ==
  \/ MarketMove
  \/ ExchFill
  \/ ExchCancel
  \/ RunIteration
  \/ CallCancel
  \/ CallOrders

Spec == Init /\ [][Next]_vars

\* ------------------------------------------------------------ the claims
Spread == IF aggressive THEN min_spread ELSE max_spread
Tracked == Range(orders)
Evs == Range(last.evs)
Handled == Range(last.handled)
ShiftActs == {"shift_buy", "stop_sell", "shift_sell"}
\* ids whose cancel the exchange answered with `done`
DoneCancelled ==
  (IF last.op = "cancel_order" /\ last.ans = "done" THEN {last.id} ELSE {})
  \cup {e.id : e \in {x \in Evs : x.ans = "done"}}
\* ids cancel_order was called for by the last operation
CancelCalled ==
  (IF last.op = "cancel_order" THEN {last.id} ELSE {})
  \cup {e.id : e \in {x \in Evs : x.act \in ShiftActs}}

\* C1: every order in the registry has no opposite, or an opposite of the
\* other side.
C1_OppositeSidesDiffer ==
  \A i \in Tracked :
    ord[i].op = None \/ ord[ord[i].op].side # ord[i].side

\* C2: when the shift pass replaces an order by a same-side order, the
\* replacement's opposite is the replaced order's opposite.
C2_ReplacementInheritsOpposite ==
  \A e \in Evs :
    (e.act \in ShiftActs /\ e.new # None) =>
      ord[e.new].op = ord[e.id].op

\* C3: in a shift pass with a positive, changed ticker, every tracked,
\* non-excluded sell whose stop_amount exists and is >= the ticker is
\* cancelled and replaced by a sell of the same size at ticker + spread/2.
C3_StoppedSellReplaced ==
  \A e \in Evs :
    e.act = "stopped" =>
      /\ e.id \notin Tracked
      /\ \E j \in Tracked :
           /\ ord[j].side = "sell"
           /\ ord[j].size = ord[e.id].size
           /\ 2 * ord[j].price = 2 * last_ticker + Spread

\* C4: a cancel answered `done` for an order that filled leaves the id out
\* of the registry and written to the fills table exactly once.
C4_DoneCancelIsOneFill ==
  \A i \in DoneCancelled :
    exch[i] = "filled" =>
      /\ i \notin Tracked
      /\ i \in DOMAIN fills
      /\ fills[i] = 1

C4_Witness ==
  /\ last.op = "cancel_order"
  /\ last.ans = "done"
  /\ exch[last.id] = "filled"
  /\ last.id \in DOMAIN fills

\* C5: a cancel answered `done` has at most one order placed on account of
\* the cancelled id, and that order is on the other side.
C5_OneOrderPerRace ==
  \A i \in DoneCancelled :
    LET on_account == {j \in DOMAIN ord : ord[j].op = i}
    IN  /\ Cardinality(on_account) <= 1
        /\ \A j \in on_account : ord[j].side # ord[i].side

\* C6: a second cancel_order for an id whose first cancel was answered
\* `not found` does not raise and leaves the registry unchanged (and the
\* first call did not raise).
C6_SecondCancelQuiet ==
  [][ (last.op = "cancel_order" /\ last.ans = "notfound"
       /\ last'.op = "cancel_order" /\ last'.id = last.id)
      => (last.exc = "none" /\ last'.exc = "none" /\ orders' = orders) ]_vars

\* C7: after cancel_order(id) ends, by returning or by raising and whatever
\* the exchange answered, id is not in the registry.
C7_CancelledNotTracked ==
  \A i \in CancelCalled : i \notin Tracked

C7_Witness ==
  /\ last.op = "cancel_order"
  /\ last.ans = "error"
  /\ last.exc = "GdaxAPIError"
  /\ exch[last.id] = "open"
  /\ last.id \notin Tracked

\* C8: an order place_order returns has an id the exchange assigned and is
\* in the registry under it (until the shift pass of the same iteration
\* cancels it), and every post is such an order; when the seed place_order
\* returns none (run() then fails on o.id), nothing was posted and the
\* registry is unchanged.
C8_PlaceOrderResult ==
  [][ /\ \A j \in Range(last'.placed) :
           /\ j \in DOMAIN ord'
           /\ j \notin DOMAIN ord
           /\ \/ j \in Range(orders')
              \/ \E k \in DOMAIN last'.evs :
                   last'.evs[k].id = j /\ last'.evs[k].act \in ShiftActs
      /\ Len(ord') - Len(ord) = Len(last'.placed)
      /\ last'.seed # None =>
           last'.seed \in Range(last'.placed) /\ last'.seed \in Range(orders')
      /\ (last'.op = "run" /\ last'.exc = "AttributeError") =>
           (orders' = orders /\ ord' = ord /\ exch' = exch) ]_vars

C8_Witness ==
  /\ last.op = "run"
  /\ last.seed # None
  /\ last.seed \in Tracked
  /\ exch[last.seed] = "open"

C8_WitnessNone ==
  /\ last.op = "run"
  /\ last.exc = "AttributeError"

\* C9: after handle_fill of a filled buy whose follow-up was posted, there
\* is a new sell (in the registry unless the shift pass of the same
\* iteration has cancelled it since) whose opposite is the filled buy, of
\* the filled size, at a price >= filled.price + min_spread.
C9_FollowUpSell ==
  \A h \in Handled :
    (ord[h.id].side = "buy" /\ h.new # None) =>
      /\ h.new \in Tracked \/ h.new \in CancelCalled
      /\ ord[h.new].side = "sell"
      /\ ord[h.new].op = h.id
      /\ ord[h.new].size = ord[h.id].size
      /\ ord[h.new].price >= ord[h.id].price + min_spread

C9_Witness ==
  \E h \in Handled :
    /\ ord[h.id].side = "buy"
    /\ h.new # None
    /\ h.new \in Tracked
    /\ ord[h.new].price = ord[h.id].price + min_spread
    /\ highest_bid + min_spread < ord[h.id].price

\* C10: when a sell fills while the tracked buys number max_open_buys or
\* more, handle_fill returns without posting a buy, and the fills table
\* gains exactly the entry of the filled sell.
C10_CapSkipsBuy ==
  [][ \A i \in DOMAIN last'.handled :
        LET h == last'.handled[i]
        IN  (ord'[h.id].side = "sell" /\ h.n_buys >= max_open_buys) =>
              /\ h.new = None
              /\ h.exc = "none"
              /\ h.id \notin DOMAIN fills
              /\ h.id \in DOMAIN fills'
              /\ fills'[h.id] = 1
              /\ Cardinality(DOMAIN fills') =
                   Cardinality(DOMAIN fills) + Len(last'.handled) ]_vars

C10_Witness ==
  \E h \in Handled :
    /\ ord[h.id].side = "sell"
    /\ h.n_buys >= max_open_buys
    /\ h.new = None
    /\ h.id \in DOMAIN fills

\* ------------------------------------------- the order's own functions
\* A second specification for the functions of GdaxMMOrder: the registry,
\* the book and the ticker are drawn in the initial state, and each action
\* applies one function once to an order of the registry.
MaxBook == 2            \* orders in the drawn registry
\* prices of the drawn orders
BookPrices == {80, 95}
\* values of the price argument
ArgPrices == {70, 80, 85, 90, 95, 100}
\* values of the step argument: 0.03 (the default) and 0.05
Steps == {3, 5}

Books ==
  UNION { { b \in [1..n -> [side : {"buy", "sell"}, price : BookPrices, size : {3}, op : {None, 1}]]
            : b[1].op = None }
          : n \in 1..MaxBook }

Applied(op, order_id, arg, ret, exc) ==
  [op |-> op, id |-> order_id, arg |-> arg, ret |-> ret, exc |-> exc]

InitOrder ==
  /\ ord \in Books
  /\ orders = [i \in DOMAIN ord |-> i]
  /\ exch = [i \in DOMAIN ord |-> "open"]
  /\ fills = <<>>
  /\ last_ticker = 0
  /\ market \in Markets
  /\ manage_existing_orders = FALSE
  /\ aggressive = TRUE
  /\ last = NoOp

\* order.get_price_adjusted_to_ticker(price=p, aggressive=aggr)
ApplyTicker ==
  /\ last = NoOp
  /\ \E i \in DOMAIN ord, p \in ArgPrices, aggr \in BOOLEAN :
       last' = Applied("get_price_adjusted_to_ticker", i,
                       [price |-> p, aggr |-> aggr, step |-> 0],
                       get_price_adjusted_to_ticker(St, [ord[i] EXCEPT !.price = p], aggr),
                       "none")
  /\ UNCHANGED <<orders, fills, ord, exch, last_ticker, market,
                 manage_existing_orders, aggressive>>

\* order.get_price_adjusted_to_other_prices(aggressive=aggr, step=step)
ApplyOtherPrices ==
  /\ last = NoOp
  /\ \E i \in DOMAIN ord, step \in Steps, aggr \in BOOLEAN :
       last' = Applied("get_price_adjusted_to_other_prices", i,
                       [price |-> ord[i].price, aggr |-> aggr, step |-> step],
                       get_price_adjusted_to_other_prices(St, ord[i], aggr, step, 1),
                       "none")
  /\ UNCHANGED <<orders, fills, ord, exch, last_ticker, market,
                 manage_existing_orders, aggressive>>

\* (variant: the order is taken as the opposite whatever its side)
register_op_order_any(m, self_id, order_id) ==
  [m EXCEPT !.ord[self_id].op = order_id]

\* self.register_op_order(order), both given by their ids
register_op_order(m, self_id, order_id) ==
  IF m.ord[order_id].side = m.ord[self_id].side /\ m.ord[order_id].op # None
  THEN [m EXCEPT !.ord[self_id].op = m.ord[order_id].op]
  ELSE IF m.ord[order_id].side # m.ord[self_id].side
  THEN [m EXCEPT !.ord[self_id].op = order_id]
  ELSE Raise(m, "AttributeError")

\* the state register_op_order left, and what it raised
Registered(m, self_id, order_id) ==
  /\ ord' = m.ord
  /\ last' = Applied("register_op_order", self_id, [other |-> order_id], None, m.exc)

ApplyRegisterOpOrder ==
  /\ last = NoOp
  /\ \E i \in DOMAIN ord, j \in DOMAIN ord :
       Registered(register_op_order(St, i, j), i, j)
  /\ UNCHANGED <<orders, fills, exch, last_ticker, market,
                 manage_existing_orders, aggressive>>

\* values of the min_profit argument: 0.01 (the default) and 0.02
MinProfits == {1, 2}

\* order.get_price_adjusted_to_spread(aggressive=aggr, min_profit=mp),
\* the order priced at p
ApplySpread ==
  /\ last = NoOp
  /\ \E i \in DOMAIN ord, p \in ArgPrices, aggr \in BOOLEAN, mp \in MinProfits :
       last' = Applied("get_price_adjusted_to_spread", i,
                       [price |-> p, aggr |-> aggr, min_profit |-> mp],
                       get_price_adjusted_to_spread(St, [ord[i] EXCEPT !.price = p], aggr, mp),
                       "none")
  /\ UNCHANGED <<orders, fills, ord, exch, last_ticker, market,
                 manage_existing_orders, aggressive>>

NextOrder ==
  \/ ApplyTicker
  \/ ApplyOtherPrices
  \/ ApplyRegisterOpOrder
  \/ ApplySpread

OrderSpec == InitOrder /\ [][NextOrder]_vars

\* C11: with a ticker, get_price_adjusted_to_ticker returns for a buy a
\* price below the ticker, at most ticker - spread, and for a sell a price
\* of at least ticker + spread.
C11_NoCrossing ==
  (last.op = "get_price_adjusted_to_ticker" /\ market.ticker # 0) =>
    LET spread == IF last.arg.aggr THEN min_spread ELSE max_spread
    IN  IF ord[last.id].side = "buy"
        THEN last.ret < market.ticker /\ last.ret <= market.ticker - spread
        ELSE last.ret >= market.ticker + spread

\* a buy at or above ticker - spread, moved below a peer that sits there
C11_Witness ==
  /\ last.op = "get_price_adjusted_to_ticker"
  /\ market.ticker # 0
  /\ ord[last.id].side = "buy"
  /\ last.arg.price >= market.ticker - min_spread
  /\ last.ret < market.ticker - max_spread

\* C12: the price get_price_adjusted_to_other_prices returns differs from
\* the price of every other tracked order of the same side by more than
\* 2 * step.
C12_PeersKeptApart ==
  last.op = "get_price_adjusted_to_other_prices" =>
    \A j \in Range(orders) \ {last.id} :
      ord[j].side = ord[last.id].side =>
        \/ last.ret - ord[j].price > 2 * last.arg.step
        \/ ord[j].price - last.ret > 2 * last.arg.step

\* C13: when a cancel of the shift pass fails with an exchange error, the
\* pass still evaluates the remaining orders of its snapshot: every order
\* tracked before and after the tick has been evaluated.
C13_PassGoesOn ==
  [][ (/\ last'.op = "run"
       /\ \E e \in Range(last'.evs) : e.ans \in {"error", "cancel_error"})
      => \A i \in Range(orders) \cap Range(orders') :
           \E e \in Range(last'.evs) : e.id = i ]_vars

\* the tick ended in the seed step: place_order raised on a rejected post
\* or returned none, before the shift pass (no refresh, no evaluation)
SeedFailed ==
  /\ last.op = "run"
  /\ last.evs = <<>>
  /\ last.handled = <<>>
  /\ last.placed = <<>>
  /\ last.exc \in {"GdaxAPIError", "AttributeError"}

\* C14: a failing seed buy (rejected post, or no order from place_order)
\* does not end the tick: the shift pass still runs and run() goes on.
C14_SeedFailureTolerated == ~SeedFailed

\* ------------------------------------------------------------- shutdown
\* A third specification for the end of the engine's life: a registry and
\* the exchange's status of its orders are drawn in the initial state; the
\* stop flag ends run(), and __del__ cancels the tracked buys.
InitShutdown ==
  /\ ord \in Books
  /\ orders = [i \in DOMAIN ord |-> i]
  /\ exch \in [DOMAIN ord -> {"open", "filled", "gone"}]
  /\ fills = <<>>
  /\ last_ticker = 0
  /\ market \in {k \in Markets : k.ticker = 0}
  /\ manage_existing_orders = FALSE
  /\ aggressive = TRUE
  /\ last = NoOp

\* try: order.cancel() except Exception: log.  The registry is not touched.
del_cancel(m, order_id, ans) ==
  Ev([cancel(m, order_id, ans) EXCEPT !.ret = None], order_id, "del_cancel", ans)

\* (variant: every tracked order, not only the buys)
del_targets_all(m) == m.orders

\* for o_id, order in self.buy_orders.items()
del_targets(m) == buy_orders(m)

RECURSIVE del_loop(_, _)
del_loop(m, ids) ==
  IF ids = <<>> THEN {m}
  ELSE UNION { del_loop(del_cancel(m, Head(ids), ans), Tail(ids))
               : ans \in CancelAnswers(m.exch[Head(ids)]) }

\* self.stop = True: the loop of run() ends and the book feed is closed
Stop ==
  /\ last = NoOp
  /\ last' = [NoOp EXCEPT !.op = "stop"]
  /\ UNCHANGED <<orders, fills, ord, exch, last_ticker, market,
                 manage_existing_orders, aggressive>>

\* __del__
Del ==
  /\ last.op \in {"none", "stop"}
  /\ \E m \in del_loop(St, del_targets(St)) :
       /\ Commit(m)
       /\ last' = Done("__del__", None, "none", None, m)
  /\ UNCHANGED <<last_ticker, market, manage_existing_orders, aggressive>>

NextShutdown ==
  \/ Stop
  \/ Del

ShutdownSpec == InitShutdown /\ [][NextShutdown]_vars

C16_RefreshBeforeSeed ==
  [][ last'.op = "run" =>
        \A k \in DOMAIN last'.handled :
          LET h == last'.handled[k]
          IN  (\A e \in Range(last'.evs) : e.id # h.id) =>
                h.n_buys <=
                  Cardinality({i \in Range(orders) : ord[i].side = "buy" /\ i # h.id})
                  + Cardinality({j \in 1..(k - 1) :
                                   /\ last'.handled[j].new # None
                                   /\ ord'[last'.handled[j].new].side = "buy"}) ]_vars

\* C17: register_op_order(order) sets the opposite to order when the sides
\* differ, to order's opposite when the sides are equal and order has one,
\* and otherwise raises and leaves the opposite as it was.
C17_RegisterOpOrder ==
  [][ last'.op = "register_op_order" =>
        LET i == last'.id
            j == last'.arg.other
        IN  IF ord[j].side # ord[i].side
            THEN last'.exc = "none" /\ ord' = [ord EXCEPT ![i].op = j]
            ELSE IF ord[j].op # None
            THEN last'.exc = "none" /\ ord' = [ord EXCEPT ![i].op = ord[j].op]
            ELSE last'.exc = "AttributeError" /\ ord' = ord ]_vars

\* a same-side order with an opposite was registered: its opposite is taken
C17_Witness ==
  /\ last.op = "register_op_order"
  /\ last.exc = "none"
  /\ last.id # last.arg.other
  /\ ord[last.id].side = ord[last.arg.other].side
  /\ ord[last.id].op = ord[last.arg.other].op

\* a same-side order without an opposite was registered: the call raised
C17_WitnessRaise ==
  /\ last.op = "register_op_order"
  /\ last.exc = "AttributeError"

\* C18: a buy the shift pass has cancelled to reprice it is replaced in
\* the same pass by a posted buy of the same size (no exchange call of the
\* tick having failed).
C18_CancelledBuyReplaced ==
  \A e \in Evs :
    (last.exc = "none" /\ e.act = "shift_buy" /\ e.ans = "ok") =>
      /\ e.new # None
      /\ ord[e.new].side = "buy"
      /\ ord[e.new].size = ord[e.id].size

\* --------------------------------------------------------- the shift pass
\* A fourth specification for shift_orders called on its own: the
\* registry, the exchange's status of its orders, the ticker and the last
\* observed ticker are drawn in the initial state, and the pass runs once
\* with an exclude list of at most one id.
LastTickers == {0, 90}

\* Either every order of the account is tracked, or the first one is not
\* and open orders of the account are adopted.
InitShift ==
  /\ ord \in Books
  /\ manage_existing_orders \in BOOLEAN
  /\ orders = IF manage_existing_orders
              THEN Tail([i \in DOMAIN ord |-> i])
              ELSE [i \in DOMAIN ord |-> i]
  /\ exch \in [DOMAIN ord -> {"open", "filled"}]
  /\ fills = <<>>
  /\ last_ticker \in LastTickers
  /\ market \in Markets
  /\ aggressive \in BOOLEAN
  /\ last = NoOp

\* self.shift_orders(snap, exclude=[...]); last.seed is the excluded id
CallShiftOrders ==
  /\ last = NoOp
  /\ \E x \in {None} \cup DOMAIN ord :
       \E r \in shift_orders(St, IF x = None THEN {} ELSE {x}) :
         /\ Commit(r.m)
         /\ last_ticker' = r.last_ticker
         /\ last' = Done("shift_orders", None, "none", x, r.m)
  /\ UNCHANGED <<market, manage_existing_orders, aggressive>>

NextShift ==
  \/ CallShiftOrders

ShiftSpec == InitShift /\ [][NextShift]_vars

\* C19: a shift pass with no ticker, a zero ticker or the ticker of the
\* pass before cancels nothing and places no same-side replacement: it
\* evaluates no order, every order it drops from the registry is one the
\* exchange no longer has open, no open order is taken off the book, and
\* every order it posts is the other-side follow-up of a fill it handled.
C19_NoShiftWithoutNewTicker ==
  [][ (/\ last'.op = "shift_orders"
       /\ market.ticker = 0 \/ market.ticker = last_ticker)
      => /\ last'.evs = <<>>
         /\ last_ticker' = last_ticker
         /\ \A i \in Range(orders) \ Range(orders') : exch[i] # "open"
         /\ \A i \in DOMAIN exch : exch'[i] = exch[i]
         /\ \A j \in Range(last'.placed) :
              \E h \in Range(last'.handled) :
                h.new = j /\ ord'[j].side # ord'[h.id].side ]_vars

\* the ticker is the one of the pass before, a tracked order has filled:
\* the pass handled the fill and posted its follow-up, nothing else
C19_Witness ==
  /\ last.op = "shift_orders"
  /\ market.ticker = last_ticker
  /\ last_ticker # 0
  /\ last.placed # <<>>
  /\ \E i \in Tracked : exch[i] = "open" /\ i \notin Range(last.placed)

\* C20: a shift pass evaluates each order at most once and none of the
\* orders posted while it iterates (the replacements, and the follow-ups
\* of the fills found by its cancels), and the excluded order is never
\* cancelled.
C20_SnapshotAndExclude ==
  [][ last'.op = "shift_orders" =>
        /\ \A k \in DOMAIN last'.evs :
             /\ \A e \in Range(last'.evs) : e.new # last'.evs[k].id
             /\ \A h \in Range(last'.handled) :
                  (\E e \in Range(last'.evs) : e.id = h.id) =>
                    h.new # last'.evs[k].id
             /\ \A k2 \in DOMAIN last'.evs :
                  last'.evs[k2].id = last'.evs[k].id => k2 = k
        /\ last'.seed # None =>
             /\ exch'[last'.seed] = exch[last'.seed]
             /\ \A e \in Range(last'.evs) :
                  e.id = last'.seed => e.act = "excluded" ]_vars

\* one order was excluded and left alone, another was cancelled and its
\* replacement was posted in the same pass
C20_Witness ==
  /\ last.op = "shift_orders"
  /\ \E e \in Evs : e.act = "excluded" /\ exch[e.id] = "open"
  /\ \E e \in Evs : e.act \in ShiftActs /\ e.new # None /\ e.new \in Tracked

\* the spread-adjusted candidate of the last call of
\* get_price_adjusted_to_other_prices, and the peers it was compared with
Candidate == get_price_adjusted_to_spread(St, ord[last.id], last.arg.aggr, 1)
Peers == other_prices_of(St, ord[last.id])
PeerInWindow ==
  \E x \in Peers : /\ x > Candidate - 2 * last.arg.step
                   /\ x < Candidate + 2 * last.arg.step

\* C21: a non-aggressive buy whose candidate has a peer inside the window
\* gets a price below the candidate, by a positive multiple of step; so
\* does an aggressive sell whose candidate is at least lowest peer - step.
C21_MovedDown ==
  (/\ last.op = "get_price_adjusted_to_other_prices"
   /\ PeerInWindow
   /\ \/ ord[last.id].side = "buy" /\ ~last.arg.aggr
      \/ /\ ord[last.id].side = "sell" /\ last.arg.aggr
         /\ Candidate >= Min(Peers) - last.arg.step)
  => /\ last.ret < Candidate
     /\ (Candidate - last.ret) % last.arg.step = 0

\* C22: for an order with an opposite, get_price_adjusted_to_spread returns
\* a price on the profitable side of the opposite by at least min_profit:
\* a sell at opposite.price + min_profit or more, a buy at
\* opposite.price - min_profit or less.
C22_ProfitableSide ==
  (/\ last.op = "get_price_adjusted_to_spread"
   /\ ord[last.id].op # None
   /\ ord[ord[last.id].op].side # ord[last.id].side)
  => IF ord[last.id].side = "sell"
     THEN last.ret >= ord[ord[last.id].op].price + last.arg.min_profit
     ELSE last.ret <= ord[ord[last.id].op].price - last.arg.min_profit

\* ------------------------------------------------- the profit target
\* A specification for get_price_adjusted_to_profit_target, one step per
\* loop test and per loop body: last holds the locals price and pnl of
\* the call and where the call stands. price is a float: from some value
\* on, adding 0.01 leaves it unchanged; MaxPrice stands for that value.
MaxPrice == 98          \* the price at which price += 0.01 has no effect
\* sizes of the drawn orders: 0.03 and 1.00
ProfitSizes == {3, 100}

InitProfit ==
  /\ \E b \in Books, s \in ProfitSizes :
       ord = [i \in DOMAIN b |-> [b[i] EXCEPT !.size = s]]
  /\ orders = [i \in DOMAIN ord |-> i]
  /\ exch = [i \in DOMAIN ord |-> "open"]
  /\ fills = <<>>
  /\ last_ticker = 0
  /\ market \in Markets
  /\ manage_existing_orders = FALSE
  /\ aggressive = TRUE
  /\ last = NoOp

\* get_pnl returns None exactly for an order without an opposite
pnl_is_none(o) == o.op = None

\* 100 * get_pnl(price) of an order that has an opposite: sizes are in
\* hundredths, prices in cents, the difference is rounded to cents
get_pnl(m, o, price) ==
  IF o.side = "buy"
  THEN RoundDiv(m.ord[o.op].size * m.ord[o.op].price - o.size * price, 100)
  ELSE RoundDiv(o.size * price - m.ord[o.op].size * m.ord[o.op].price, 100)

InCall(order_id, mp, pc, price, pnl, ret) ==
  [op |-> "get_price_adjusted_to_profit_target", id |-> order_id,
   arg |-> [min_profit |-> mp], pc |-> pc, price |-> price, pnl |-> pnl,
   ret |-> ret, exc |-> "none"]

\* the call up to the first loop test: price and pnl are set, and an
\* order without an opposite returns its own price
EnterProfitTarget ==
  /\ last = NoOp
  /\ \E i \in DOMAIN ord, mp \in MinProfits :
       last' = IF pnl_is_none(ord[i])
               THEN InCall(i, mp, "done", ord[i].price, None, ord[i].price)
               ELSE InCall(i, mp, "test", ord[i].price, get_pnl(St, ord[i], ord[i].price), None)
  /\ UNCHANGED <<orders, fills, ord, exch, last_ticker, market,
                 manage_existing_orders, aggressive>>

\* while pnl < min_profit: the test holds
LoopTest ==
  /\ last.op = "get_price_adjusted_to_profit_target"
  /\ last.pc = "test"
  /\ last.pnl < last.arg.min_profit
  /\ last' = [last EXCEPT !.pc = "body"]
  /\ UNCHANGED <<orders, fills, ord, exch, last_ticker, market,
                 manage_existing_orders, aggressive>>

\* price += 0.01, and back to the test
LoopBody ==
  /\ last.op = "get_price_adjusted_to_profit_target"
  /\ last.pc = "body"
  /\ last' = [last EXCEPT !.pc = "test",
                          !.price = IF @ < MaxPrice THEN @ + 1 ELSE @]
  /\ UNCHANGED <<orders, fills, ord, exch, last_ticker, market,
                 manage_existing_orders, aggressive>>

\* the loop test fails: return price
ReturnPrice ==
  /\ last.op = "get_price_adjusted_to_profit_target"
  /\ last.pc = "test"
  /\ ~(last.pnl < last.arg.min_profit)
  /\ last' = [last EXCEPT !.pc = "done", !.ret = last.price]
  /\ UNCHANGED <<orders, fills, ord, exch, last_ticker, market,
                 manage_existing_orders, aggressive>>

NextProfit ==
  \/ EnterProfitTarget
  \/ LoopTest
  \/ LoopBody
  \/ ReturnPrice

\* a call that has started goes on running
ProfitSpec == InitProfit /\ [][NextProfit]_vars /\ WF_vars(LoopTest \/ LoopBody \/ ReturnPrice)

Returned == last.op = "get_price_adjusted_to_profit_target" /\ last.pc = "done"

\* C23: every call of get_price_adjusted_to_profit_target returns.
C23_Terminates ==
  (last.op = "get_price_adjusted_to_profit_target") ~> Returned

\* ------------------------------------------- pairing open sells with fills
\* A specification for map_open_orders_to_fills, called once on a drawn
\* account: some orders are open, the others have filled, and the open
\* ones are tracked or not.
MaxMap == 3             \* orders of the drawn account
\* sizes of the drawn orders
MapSizes == {3, 4}

MapBooks ==
  UNION { { b \in [1..n -> [side : {"buy", "sell"}, price : {80, 95}, size : MapSizes, op : {None, 1}]]
            : /\ b[1].op = None
              /\ \A i \in 1..n : b[i].price = IF b[i].side = "buy" THEN 80 ELSE 95 }
          : n \in 1..MaxMap }

InitMap ==
  /\ ord \in MapBooks
  /\ exch \in [DOMAIN ord -> {"open", "filled"}]
  /\ \E tracked \in BOOLEAN :
       orders = IF tracked
                THEN SelectSeq([i \in DOMAIN ord |-> i], LAMBDA i : exch[i] = "open")
                ELSE <<>>
  /\ fills = <<>>
  /\ last_ticker = 0
  /\ market \in Markets
  /\ manage_existing_orders = FALSE
  /\ aggressive = TRUE
  /\ last = NoOp

\* gdax.get_fills: one fill per filled order, by order id; a fill is
\* named by its order_id and carries that order's side, size and price
get_fills(m) == SelectSeq([i \in DOMAIN m.ord |-> i], LAMBDA i : m.exch[i] = "filled")

\* gdax.get_orders(status='open'): the ids of the open orders
get_orders(m) == SelectSeq([i \in DOMAIN m.ord |-> i], LAMBDA i : m.exch[i] = "open")

\* the inner loop: the first fill that passes the three tests, or None
RECURSIVE matching_fill(_, _, _, _)
matching_fill(m, fs, size, added) ==
  IF fs = <<>> THEN None
  ELSE IF m.ord[Head(fs)].side = "sell" THEN matching_fill(m, Tail(fs), size, added)
  ELSE IF Head(fs) \in Range(added) THEN matching_fill(m, Tail(fs), size, added)
  ELSE IF m.ord[Head(fs)].size = size THEN Head(fs)
  ELSE matching_fill(m, Tail(fs), size, added)

\* o.register_op_order(op_order); self._orders[o.id] = o; added.append(o.id)
link_fill(c, order_id, f) ==
  IF f = None THEN c
  ELSE [m |-> [c.m EXCEPT !.ord[order_id].op = f, !.orders = Put(@, order_id)],
        added |-> Append(c.added, order_id)]

\* the body of the loop over open_orders
map_one(c, order_id, fs, existing_keys) ==
  IF order_id \in existing_keys THEN c
  ELSE IF c.m.ord[order_id].side = "buy" THEN c
  ELSE link_fill(c, order_id, matching_fill(c.m, fs, c.m.ord[order_id].size, c.added))

RECURSIVE map_loop(_, _, _, _)
map_loop(c, open_orders, fs, existing_keys) ==
  IF open_orders = <<>> THEN c
  ELSE map_loop(map_one(c, Head(open_orders), fs, existing_keys),
                Tail(open_orders), fs, existing_keys)

\* an open order that is not tracked is built from the listing, without
\* an opposite
untracked_unlinked(m) ==
  [m EXCEPT !.ord = [i \in DOMAIN m.ord |->
                       IF m.exch[i] = "open" /\ i \notin Range(m.orders)
                       THEN [m.ord[i] EXCEPT !.op = None] ELSE m.ord[i]]]

existing_keys_of(m) ==
  {k \in Range(m.orders) : m.ord[k].op # None /\ m.ord[k].side = "sell"}

map_open_orders_to_fills(m) ==
  map_loop([m |-> untracked_unlinked(m), added |-> <<>>], get_orders(m), get_fills(m), existing_keys_of(m))

Mapped(c) ==
  /\ ord' = c.m.ord
  /\ orders' = c.m.orders
  /\ last' = Applied("map_open_orders_to_fills", None, [x |-> None], c.added, "none")

CallMapOpenOrdersToFills ==
  /\ last = NoOp
  /\ Mapped(map_open_orders_to_fills(St))
  /\ UNCHANGED <<fills, exch, last_ticker, market, manage_existing_orders,
                 aggressive>>

NextMap ==
  \/ CallMapOpenOrdersToFills

MapSpec == InitMap /\ [][NextMap]_vars

\* C24: every sell map_open_orders_to_fills linked is an open sell linked
\* to a filled buy of exactly its size, and no two of them are linked to
\* the same fill.
C24_FillClaimedOnce ==
  last.op = "map_open_orders_to_fills" =>
    /\ \A i \in Range(last.ret) :
         /\ ord[i].side = "sell" /\ exch[i] = "open"
         /\ ord[i].op # None
         /\ ord[ord[i].op].side = "buy" /\ exch[ord[i].op] = "filled"
         /\ ord[ord[i].op].size = ord[i].size
    /\ \A i, j \in Range(last.ret) : i # j => ord[i].op # ord[j].op

\* ------------------------------------------------- the registry refresh
\* A specification for the orders property, read once on a drawn account:
\* each order is open, filled or cancelled on the exchange, and is tracked
\* or not.
InitRefresh ==
  /\ ord \in Books
  /\ manage_existing_orders \in BOOLEAN
  /\ orders \in {[i \in DOMAIN ord |-> i], Tail([i \in DOMAIN ord |-> i])}
  /\ exch \in [DOMAIN ord -> {"open", "filled", "gone"}]
  /\ fills = <<>>
  /\ last_ticker = 0
  /\ market \in Markets
  /\ aggressive \in BOOLEAN
  /\ last = NoOp

RefreshOnce ==
  /\ last = NoOp
  /\ CallOrders

NextRefresh ==
  \/ RefreshOnce

RefreshSpec == InitRefresh /\ [][NextRefresh]_vars

\* C25: after a refresh that returns normally, every id tracked at entry
\* and not in the open-orders listing is out of the registry and in fills;
\* with manage_existing_orders every listed id is tracked, without it no
\* listed id that was untracked is tracked.
C25_RefreshReconciles ==
  [][ (last'.op = "orders" /\ last'.exc = "none") =>
        /\ \A i \in Range(orders) :
             exch[i] # "open" => i \notin Range(orders') /\ i \in DOMAIN fills'
        /\ manage_existing_orders =>
             \A i \in DOMAIN exch : exch[i] = "open" => i \in Range(orders')
        /\ ~manage_existing_orders =>
             \A i \in DOMAIN exch :
               (exch[i] = "open" /\ i \notin Range(orders)) => i \notin Range(orders') ]_vars

\* a fill was handled and its follow-up posted, and an order of the
\* listing was taken into the registry after it
C25_Witness ==
  /\ last.op = "orders"
  /\ last.exc = "none"
  /\ manage_existing_orders
  /\ last.handled # <<>>
  /\ \E a, b \in DOMAIN orders :
       /\ a < b
       /\ orders[a] \in Range(last.placed)
       /\ orders[b] \notin Range(last.placed)
       /\ exch[orders[b]] = "open"

\* C26: the number of tracked buys never exceeds max_open_buys.
C26_BuysCapped == Len(buy_orders(St)) <= max_open_buys

\* the cap is reached, and a cancel answered "done" for a sell handled the
\* fill without a follow-up buy
C26_Witness ==
  /\ Len(buy_orders(St)) = max_open_buys
  /\ last.op = "cancel_order"
  /\ last.ans = "done"
  /\ ord[last.id].side = "sell"
  /\ \E h \in Handled : h.id = last.id /\ h.new = None /\ h.exc = "none"

\* C27: every order the engine posted that is still open on the exchange
\* is tracked in the registry.
C27_OpenOrdersTracked ==
  \A i \in DOMAIN exch : exch[i] = "open" => i \in Tracked

\* C28: no id is in the registry and in the fills table at the same time,
\* and an id recorded in fills stays there and never comes back into the
\* registry.
C28_FilledStaysOut ==
  /\ [](Tracked \cap DOMAIN fills = {})
  /\ [][ \A i \in DOMAIN fills :
           i \in DOMAIN fills' /\ i \notin Range(orders') ]_vars

\* an order filled while its cancel was on its way: it is in fills and out
\* of the registry, and its follow-up is tracked
C28_Witness ==
  /\ last.op = "cancel_order"
  /\ last.ans = "done"
  /\ last.id \in DOMAIN fills
  /\ last.id \notin Tracked
  /\ \E h \in Handled : h.id = last.id /\ h.new # None /\ h.new \in Tracked

====
